---- MODULE Spec2Model ----
(***************************************************************************)
(* Model of the ComfyUI-api-tools REST handlers for model files:           *)
(*   remove_model, download_model   (src/api_server.py)                    *)
(*   install_model                  (src/api_server.py, model_utils/install.py) *)
(* and of its metrics registry:                                             *)
(*   MetricsRegistry, get_metrics   (src/metrics/prometheus.py)            *)
(*                                                                         *)
(* Strings the code inspects character by character (the request's model   *)
(* path, file names on disk, the URL's netloc) are sequences of tokens;    *)
(* a token is one character, or an indivisible chunk such as "www." whose  *)
(* inner characters no code path looks at.  A filesystem path is a         *)
(* sequence of names, a name a sequence of tokens.                         *)
(***************************************************************************)
EXTENDS Integers, Sequences, FiniteSets, TLC

VARIABLES
    sep,        \* os.sep of the platform the server runs on: "/" or "\\"
    fs,         \* the filesystem: path of every entry -> node (a directory
                \* has an entry only when os.makedirs made it)
    pc,         \* "idle": waiting for a request; "responded": a handler returned
    lastReq,    \* the request the last handler ran for
    lastResp,   \* the response it returned
    effects,    \* the filesystem / network operations that handler performed
    clock,      \* what time.time() returns now, in seconds
    TORCH_AVAILABLE,  \* whether import torch succeeded
    lock,       \* MetricsRegistry._lock: 0 when free, else the thread holding it
    instance,   \* MetricsRegistry._instance: 0 for None, else an object of heap
    heap,       \* the MetricsRegistry objects allocated so far
    threads,    \* each thread's position in MetricsRegistry() and its locals
    scrapes     \* the texts the last two metrics scrapes returned

apiVars == <<sep, fs, pc, lastReq, lastResp, effects>>

metricsVars == <<clock, TORCH_AVAILABLE, lock, instance, heap, threads, scrapes>>

vars == <<apiVars, metricsVars>>

\* ------------------------------------------------------------------ bounds

\* longest raw model path a request carries
MaxLen == 4

\* ------------------------------------------------------- strings and paths

None == "None"

\* characters a raw model path is made of
Alphabet == {"a", "b", "/", "\\", ".", ":"}

RawPaths == UNION {[1..n -> Alphabet] : n \in 0..MaxLen}

\* str.startswith(("/", "\\"))
StartsWithSep(p) == Len(p) > 0 /\ p[1] \in {"/", "\\"}

\* str.replace(from, to) for one-character from and to
Replace(p, from, to) == [i \in 1..Len(p) |-> IF p[i] = from THEN to ELSE p[i]]

\* index of the first c in p, 0 when there is none
RECURSIVE FindFrom(_, _, _)
FindFrom(p, c, i) ==
    IF i > Len(p) THEN 0
    ELSE IF p[i] = c THEN i
    ELSE FindFrom(p, c, i + 1)

\* str.split(c): "" splits to [""], "a/" to ["a", ""]
RECURSIVE Split(_, _)
Split(p, c) ==
    LET i == FindFrom(p, c, 1) IN
    IF i = 0 THEN <<p>>
    ELSE <<SubSeq(p, 1, i - 1)>> \o Split(SubSeq(p, i + 1, Len(p)), c)

\* c.join(parts)
RECURSIVE Join(_, _)
Join(parts, c) ==
    IF Len(parts) = 0 THEN <<>>
    ELSE IF Len(parts) = 1 THEN parts[1]
    ELSE parts[1] \o <<c>> \o Join(Tail(parts), c)

IsPrefix(p, q) == Len(p) <= Len(q) /\ SubSeq(q, 1, Len(p)) = p

IsProperPrefix(p, q) == Len(p) < Len(q) /\ SubSeq(q, 1, Len(p)) = p

\* os.path.dirname of a path given as a sequence of names
DirName(q) == SubSeq(q, 1, Len(q) - 1)

\* os.path.normpath on a sequence of names: drops "" and ".", and lets ".."
\* cancel the name before it (".." at the root stays at the root)
RECURSIVE NormPath(_, _)
NormPath(done, rest) ==
    IF Len(rest) = 0 THEN done
    ELSE LET h == Head(rest) IN
         IF h = <<>> \/ h = <<".">> THEN NormPath(done, Tail(rest))
         ELSE IF h = <<".", ".">>
              THEN NormPath(IF Len(done) = 0 THEN done ELSE DirName(done), Tail(rest))
         ELSE NormPath(Append(done, h), Tail(rest))

\* os.path.abspath of an absolute path
AbsPath(q) == NormPath(<<>>, q)

\* os.path.commonpath([p, q]): the longest common prefix, name by name
RECURSIVE CommonPath(_, _)
CommonPath(p, q) ==
    IF Len(p) = 0 \/ Len(q) = 0 \/ Head(p) # Head(q) THEN <<>>
    ELSE <<Head(p)>> \o CommonPath(Tail(p), Tail(q))

\* ------------------------------------------------------- host environment

\* folder_paths.models_dir
ModelsDir == << <<"models">> >>

LorasBase == ModelsDir \o << <<"loras">> >>

\* folder_paths.folder_names_and_paths: folder name -> list of base directories
FolderNamesAndPaths == [loras |-> <<LorasBase>>]

\* folder names a request may carry: a registered one and two that are not
FolderInputs == {"loras", "nope"}

\* a regular file that lies outside every registered base directory
OutsideFile == << <<"etc">>, <<"secret">> >>

\* ------------------------------------------------------------- filesystem

RegularFile(d) == [kind |-> "file", data |-> d, target |-> <<>>]

\* a node that is no regular file and no directory (os.walk lists it in files)
Fifo == [kind |-> "fifo", data |-> None, target |-> <<>>]

SymLink(t) == [kind |-> "link", data |-> None, target |-> t]

\* an empty directory, as os.makedirs leaves it
Directory == [kind |-> "dir", data |-> None, target |-> <<>>]

\* os.path.isdir: the models directory, the registered base directories and
\* their ancestors are there from the start; any other directory is there when
\* an entry lies below it or when os.makedirs made it
IsDir(f, q) ==
    \/ IsPrefix(q, ModelsDir)
    \/ \E n \in DOMAIN FolderNamesAndPaths :
          \E i \in 1..Len(FolderNamesAndPaths[n]) : IsPrefix(q, FolderNamesAndPaths[n][i])
    \/ \E r \in DOMAIN f : IsProperPrefix(q, r)
    \/ q \in DOMAIN f /\ f[q].kind = "dir"

\* os.path.isfile: follows a symlink, true for a regular file only
IsFile(f, q) ==
    /\ q \in DOMAIN f
    /\ \/ f[q].kind = "file"
       \/ /\ f[q].kind = "link"
          /\ f[q].target \in DOMAIN f
          /\ f[f[q].target].kind = "file"

\* os.path.exists: follows a symlink, true for files, special files, directories
Exists(f, q) ==
    \/ IsDir(f, q)
    \/ /\ q \in DOMAIN f
       /\ \/ f[q].kind \in {"file", "fifo"}
          \/ f[q].kind = "link" /\ (f[q].target \in DOMAIN f \/ IsDir(f, f[q].target))

\* the entry the operating system reaches for a path string, name by name: a
\* name is looked up in a directory that is there, so ".." steps up only from
\* an existing directory (ok is FALSE where the lookup fails with ENOENT)
RECURSIVE Resolve(_, _, _)
Resolve(f, done, rest) ==
    IF Len(rest) = 0 THEN [ok |-> TRUE, path |-> done]
    ELSE LET h == Head(rest) IN
         IF h = <<>> \/ h = <<".">> THEN Resolve(f, done, Tail(rest))
         ELSE IF ~IsDir(f, done) THEN [ok |-> FALSE, path |-> done]
         ELSE IF h = <<".", ".">>
              THEN Resolve(f, IF Len(done) = 0 THEN done ELSE DirName(done), Tail(rest))
         ELSE Resolve(f, Append(done, h), Tail(rest))

\* os.path.exists of a path string given by its names
PathExists(f, names) ==
    LET r == Resolve(f, <<>>, names) IN r.ok /\ Exists(f, r.path)

\* os.mkdir: "exists" is FileExistsError, "other" any other OSError
Mkdir(f, names) ==
    LET r == Resolve(f, <<>>, names) IN
    IF ~r.ok THEN [err |-> "other", fs |-> f]
    ELSE IF r.path \in DOMAIN f \/ IsDir(f, r.path) THEN [err |-> "exists", fs |-> f]
    ELSE [err |-> "none",
          fs |-> [q \in DOMAIN f \cup {r.path} |-> IF q = r.path THEN Directory ELSE f[q]]]

\* os.makedirs(name) with exist_ok=False: makes the missing ancestors first,
\* passing over a FileExistsError of theirs, then the leaf, whose error it raises
RECURSIVE MakeDirs(_, _)
MakeDirs(f, names) ==
    IF Len(names) = 0 THEN [err |-> "exists", fs |-> f]
    ELSE LET head == DirName(names)
             above == IF Len(head) > 0 /\ ~PathExists(f, head)
                      THEN MakeDirs(f, head)
                      ELSE [err |-> "none", fs |-> f]
         IN  IF above.err = "other" THEN above ELSE Mkdir(above.fs, names)

\* the file an open() of q reads: q itself, or the target of the symlink q
RealPath(f, q) == IF f[q].kind = "link" THEN f[q].target ELSE q

\* os.remove: unlinks the entry q (a symlink itself, never its target)
Remove(f, q) == [r \in DOMAIN f \ {q} |-> f[r]]

\* ------------------------------------------------------------- responses

\* json_response({"code": code, "message": message, **kwargs})
error_resp(code, message) == [code |-> code, message |-> message, result |-> <<>>]

success_resp(result) == [code |-> 200, message |-> "success", result |-> result]

\* FileResponse(path=...): the file at path is streamed as an attachment
FileResponse(path) == [code |-> 200, message |-> "file", result |-> path]

Fx(op, path) == [op |-> op, path |-> path]

Outcome(resp, f, fx) == [resp |-> resp, fs |-> f, effects |-> fx]

\* -------------------------------------------- _normalize_rel_model_path

ValueError == [ok |-> FALSE, value |-> <<>>]

\* the same checks on the raw string, "\\" never taken for a separator
_normalize_keeps_backslash(p) ==
    IF StartsWithSep(p) THEN ValueError
    ELSE IF \E i \in 1..Len(p) : p[i] = ":" THEN ValueError
    ELSE LET parts == Split(p, "/") IN
         IF \E i \in 1..Len(parts) : parts[i] \in {<<>>, <<".">>, <<".", ".">>}
         THEN ValueError
         ELSE [ok |-> TRUE, value |-> Join(parts, "/")]

\* no test of the first character, and empty segments dropped, not rejected
_normalize_drops_empty(p) ==
    LET p2 == Replace(p, "\\", "/") IN
    IF \E i \in 1..Len(p2) : p2[i] = ":" THEN ValueError
    ELSE LET parts == SelectSeq(Split(p2, "/"), LAMBDA x : x # <<>>) IN
         IF \E i \in 1..Len(parts) : parts[i] \in {<<".">>, <<".", ".">>}
         THEN ValueError
         ELSE [ok |-> TRUE, value |-> Join(parts, "/")]

_normalize_rel_model_path(p) ==
    IF StartsWithSep(p) THEN ValueError
    ELSE LET p2 == Replace(p, "\\", "/") IN
         IF \E i \in 1..Len(p2) : p2[i] = ":" THEN ValueError
         ELSE LET parts == Split(p2, "/") IN
              IF \E i \in 1..Len(parts) : parts[i] \in {<<>>, <<".">>, <<".", ".">>}
              THEN ValueError
              ELSE [ok |-> TRUE, value |-> Join(parts, "/")]

\* ------------------------------------------------- the os.walk match loop

\* the non-directory entries os.walk(base) lists in some directory's files
WalkFiles(f, base) == {q \in DOMAIN f : IsProperPrefix(base, q) /\ f[q].kind # "dir"}

\* os.path.relpath(file_path, base): the names below base joined by os.sep
RelPath(q, base, s) == Join(SubSeq(q, Len(base) + 1, Len(q)), s)

\* the match of the looser handler: the relative path as the OS spells it
MatchesExact(q, base, s, model_input, normalized_model_input) ==
    RelPath(q, base, s) = model_input

\* the test of the inner loop on one file
Matches(q, base, s, model_input, normalized_model_input) ==
    LET rel_path == RelPath(q, base, s)
        rel_path_normalized == Replace(rel_path, "\\", "/")
    IN  \/ rel_path = model_input
        \/ rel_path = normalized_model_input
        \/ rel_path_normalized = normalized_model_input

\* os.walk is top-down: the files of a directory come before the files of the
\* directories below it; the order inside a directory, and between sibling
\* directories, is the listing order of the OS
WalkedBefore(q, r) == IsProperPrefix(DirName(q), DirName(r))

\* the files the loop can break on: a matching file that no other matching
\* file is certain to be walked before
FirstMatches(f, base, s, model_input, normalized_model_input) ==
    LET M == {q \in WalkFiles(f, base) :
                 Matches(q, base, s, model_input, normalized_model_input)}
    IN  {q \in M : \A r \in M : ~WalkedBefore(r, q)}

\* the containment test both handlers apply to the matched path
WithinBase(matched_full_path, base_folder_path) ==
    CommonPath(AbsPath(matched_full_path), AbsPath(base_folder_path))
        = AbsPath(base_folder_path)

\* folder_paths.folder_names_and_paths.get(input_folder): None, shown as the
\* empty list, for a name that is no key
FolderDefaultsToLoras(input_folder) ==
    IF input_folder \in DOMAIN FolderNamesAndPaths
    THEN FolderNamesAndPaths[input_folder]
    ELSE FolderNamesAndPaths["loras"]

FolderPathsList(input_folder) ==
    IF input_folder \in DOMAIN FolderNamesAndPaths
    THEN FolderNamesAndPaths[input_folder]
    ELSE <<>>

FolderNotFoundAs400 == error_resp(400, "Folder not found")

\* error_resp(404, f"Folder '{input_folder}' not found")
FolderNotFound == error_resp(404, "Folder not found")

\* ------------------------------------------------------------ remove_model

\* the outcomes of remove_model on filesystem f; osError: os.remove raises
remove_model(f, s, input_folder, model_input, osError) ==
    LET n == _normalize_rel_model_path(model_input) IN
    IF ~n.ok THEN {Outcome(error_resp(400, "invalid model path"), f, {})}
    ELSE IF FolderPathsList(input_folder) = <<>>
    THEN {Outcome(FolderNotFound, f, {})}
    ELSE
    LET base == FolderPathsList(input_folder)[1]
        walked == {Fx("walk", base)}
        M == FirstMatches(f, base, s, model_input, n.value)
    IN  IF M = {} THEN {Outcome(error_resp(404, "Model not found"), f, walked)}
        ELSE {IF ~WithinBase(q, base)
              THEN Outcome(error_resp(403, "Access denied"), f, walked)
              ELSE IF ~IsFile(f, q)
              THEN Outcome(error_resp(404, "Not Found"), f,
                           walked \cup {Fx("isfile", q)})
              ELSE IF osError
              THEN Outcome(error_resp(500, "OSError"), f,
                           walked \cup {Fx("isfile", q)})
              ELSE Outcome(success_resp(q), Remove(f, q),
                           walked \cup {Fx("isfile", q), Fx("remove", q)})
              : q \in M}

\* ---------------------------------------------------------- download_model

download_model(f, s, input_folder, model_input) ==
    IF input_folder = "" THEN {Outcome(error_resp(400, "folder is required"), f, {})}
    ELSE IF model_input = <<>>
    THEN {Outcome(error_resp(400, "model is required"), f, {})}
    ELSE
    LET n == _normalize_rel_model_path(model_input) IN
    IF ~n.ok THEN {Outcome(error_resp(400, "invalid model path"), f, {})}
    ELSE IF FolderPathsList(input_folder) = <<>>
    THEN {Outcome(FolderNotFound, f, {})}
    ELSE
    LET base == FolderPathsList(input_folder)[1]
        walked == {Fx("walk", base)}
        M == FirstMatches(f, base, s, model_input, n.value)
    IN  IF M = {} THEN {Outcome(error_resp(404, "Model not found"), f, walked)}
        ELSE {IF ~WithinBase(q, base)
              THEN Outcome(error_resp(403, "Access denied"), f, walked)
              ELSE IF ~IsFile(f, q)
              THEN Outcome(error_resp(404, "Not Found"), f,
                           walked \cup {Fx("isfile", q)})
              ELSE Outcome(FileResponse(q), f,
                           walked \cup {Fx("isfile", q), Fx("read", RealPath(f, q))})
              : q \in M}

\* ------------------------------------------------------------ install_model

\* a URL is a sequence of tokens: an optional scheme token, the tokens of the
\* network location, then a path token
Https == "https://"

PathToken == "/x"

\* urllib.parse.urlparse(url).netloc: what lies between "scheme://" and the
\* path; empty when the URL has no "//"
Netloc(url) ==
    IF Len(url) = 0 \/ url[1] # Https THEN <<>>
    ELSE LET i == FindFrom(url, PathToken, 2) IN
         SubSeq(url, 2, IF i = 0 THEN Len(url) ELSE i - 1)

\* urlparse raises ValueError for an unbalanced "[" in the netloc
UrlparseRaises(url) == \E i \in 1..Len(Netloc(url)) : Netloc(url)[i] = "["

allowed_domains ==
    {<<"civitai.com">>, <<"github.com">>, <<"raw.githubusercontent.com">>,
     <<"huggingface.co">>}

\* every leading "www." removed, not only the first
RECURSIVE StripAllWww(_)
StripAllWww(domain) ==
    IF Len(domain) > 0 /\ domain[1] = "www." THEN StripAllWww(Tail(domain)) ELSE domain

\* if domain.startswith('www.'): domain = domain[4:]
StripWww(domain) ==
    IF Len(domain) > 0 /\ domain[1] = "www." THEN Tail(domain) ELSE domain

\* the domain test of install_model
DomainAllowed(url) == StripWww(Netloc(url)) \in allowed_domains

model_dir_name_map ==
    ("checkpoints" :> "checkpoints") @@ ("checkpoint" :> "checkpoints") @@
    ("unclip" :> "checkpoints") @@ ("text_encoders" :> "text_encoders") @@
    ("clip" :> "text_encoders") @@ ("vae" :> "vae") @@ ("lora" :> "loras") @@
    ("t2i-adapter" :> "controlnet") @@ ("t2i-style" :> "controlnet") @@
    ("controlnet" :> "controlnet") @@ ("clip_vision" :> "clip_vision") @@
    ("gligen" :> "gligen") @@ ("upscale" :> "upscale_models") @@
    ("embedding" :> "embeddings") @@ ("embeddings" :> "embeddings") @@
    ("unet" :> "diffusion_models") @@ ("diffusion_model" :> "diffusion_models")

\* the model types a request may declare
TypeInputs == {"LORA", "zzz"}

\* str.lower() on the declared types
Lower(t) == IF t = "LORA" THEN "lora" ELSE t

Default == <<"default">>

\* the names of a path string: split on "/", and on "\\" too on Windows
PathNames(p, s) == Split(IF s = "\\" THEN Replace(p, "\\", "/") ELSE p, "/")

\* os.path.join(dir, p): an absolute p replaces dir
OsPathJoin(dir, p, s) ==
    IF Len(p) > 0 /\ (p[1] = "/" \/ (s = "\\" /\ p[1] = "\\"))
    THEN PathNames(p, s)
    ELSE dir \o PathNames(p, s)

get_install_dir(data, s) ==
    LET models_base ==
            IF "download_model_base" \in DOMAIN FolderNamesAndPaths
            THEN FolderNamesAndPaths["download_model_base"][1]
            ELSE ModelsDir
    IN  IF data.save_path # Default
        THEN OsPathJoin(models_base, data.save_path, s)
        ELSE LET t == Lower(data.type) IN
             IF t \in DOMAIN model_dir_name_map
             THEN FolderNamesAndPaths[model_dir_name_map[t]][1]
             ELSE OsPathJoin(models_base, <<"etc">>, s)

\* what the remote host and the disk do to one install
NetOutcomes == {"ok", "fetch_error", "write_error"}

\* the file an open(q, 'wb') writes: the target of a symlink q, else q
WriteTarget(f, q) == IF q \in DOMAIN f /\ f[q].kind = "link" THEN f[q].target ELSE q

WriteFile(f, q, d) ==
    LET t == WriteTarget(f, q) IN
    [r \in DOMAIN f \cup {t} |-> IF r = t THEN RegularFile(d) ELSE f[r]]

\* download_url_with_agent: the filesystems it can leave, each with the value
\* it returns and the operations it performed
download_url_with_agent(f, url, save_path, net) ==
    LET dirname == DirName(save_path)
        made == IF PathExists(f, dirname)
                THEN [err |-> "none", fs |-> f]
                ELSE MakeDirs(f, SelectSeq(dirname, LAMBDA n : n # <<>> /\ n # <<".">>))
        opened == Resolve(made.fs, <<>>, save_path)
        canOpen == made.err = "none" /\ opened.ok /\ ~IsDir(made.fs, opened.path)
    IN  IF net = "fetch_error"
        THEN {[ret |-> FALSE, fs |-> f, effects |-> {Fx("fetch", <<>>)}]}
        ELSE IF ~canOpen
        THEN {[ret |-> FALSE, fs |-> made.fs, effects |-> {Fx("fetch", <<>>)}]}
        ELSE IF net = "write_error"
        THEN {[ret |-> FALSE, fs |-> made.fs, effects |-> {Fx("fetch", <<>>)}],
              [ret |-> FALSE, fs |-> WriteFile(made.fs, opened.path, "partial"),
               effects |-> {Fx("fetch", <<>>), Fx("write", opened.path)}]}
        ELSE {[ret |-> TRUE, fs |-> WriteFile(made.fs, opened.path, "fetched"),
               effects |-> {Fx("fetch", <<>>), Fx("write", opened.path)}]}

\* the installer without its os.path.exists test
install_model_url_overwrites(f, s, json_data, net) ==
    LET install_dir == get_install_dir(json_data, s)
        save_path == OsPathJoin(install_dir, json_data.filename, s)
    IN  {[success |-> TRUE, message |-> "Model installed successfully",
          fs |-> d.fs, effects |-> d.effects]
         : d \in download_url_with_agent(f, json_data.url, save_path, net)}

\* install_model_url: (success, message) with the filesystem left behind
install_model_url(f, s, json_data, net) ==
    LET install_dir == get_install_dir(json_data, s)
        save_path == OsPathJoin(install_dir, json_data.filename, s)
        probed == {Fx("exists", NormPath(<<>>, save_path))}
    IN  IF PathExists(f, save_path)
        THEN {[success |-> FALSE, message |-> "File already exists at path",
               fs |-> f, effects |-> probed]}
        ELSE {[success |-> TRUE, message |-> "Model installed successfully",
               fs |-> d.fs, effects |-> probed \cup d.effects]
              : d \in download_url_with_agent(f, json_data.url, save_path, net)}

\* a url that is absent, None or "" is falsy: all three are the empty sequence
install_model(f, s, json_data, net) ==
    LET url == json_data.url IN
    IF url = <<>>
    THEN {Outcome(error_resp(400, "URL is required"), f, {})}
    ELSE IF UrlparseRaises(url)
    THEN {Outcome(error_resp(400, "Invalid URL format"), f, {})}
    ELSE IF ~DomainAllowed(url)
    THEN {Outcome(error_resp(403, "Domain is not in the allowed domains list"), f, {})}
    ELSE {IF ~r.success
          THEN Outcome(error_resp(409, r.message), r.fs, r.effects)
          ELSE Outcome(success_resp(<<>>), r.fs, r.effects)
          : r \in install_model_url(f, s, json_data, net)}

\* ------------------------------------------------------------------ inputs

NameA == <<"a">>

\* a single file name that holds a backslash (legal on POSIX only)
NameAB == <<"a", "\\", "b">>

NameB == <<"b">>

\* the entries the loras directory may hold when the server starts
PathA == LorasBase \o <<NameA>>

PathAB == LorasBase \o <<NameAB>>

PathA_B == LorasBase \o <<NameA, NameB>>

InitNodes == {RegularFile("d0"), Fifo, SymLink(OutsideFile)}

\* the filesystems the server may start on: OutsideFile always exists; a name
\* is a file or a directory, never both; Windows allows no "\\" inside a name
InitFs(s) ==
    {f \in UNION {[D \cup {OutsideFile} -> InitNodes \cup {RegularFile("secret")}]
                     : D \in SUBSET {PathA, PathAB, PathA_B}} :
        /\ f[OutsideFile] = RegularFile("secret")
        /\ \A q \in DOMAIN f \ {OutsideFile} : f[q] \in InitNodes
        /\ ~(PathA \in DOMAIN f /\ PathA_B \in DOMAIN f)
        /\ s = "\\" => PathAB \notin DOMAIN f}

UrlInputs ==
    {<<>>,
     <<Https, "github.com", PathToken>>,
     <<Https, "www.", "github.com", PathToken>>,
     <<Https, "www.", "www.", "github.com", PathToken>>,
     <<Https, "civitai.com", PathToken>>,
     <<Https, "raw.githubusercontent.com", PathToken>>,
     <<Https, "huggingface.co", PathToken>>,
     <<Https, "evil.com", PathToken>>,
     <<Https, "www.", "evil.com", PathToken>>,
     <<Https, "github.com", ".evil.com", PathToken>>,
     <<Https, "evil.com", PathToken, "github.com">>,
     <<Https, "github.com", ":443", PathToken>>,
     <<Https, "user@", "github.com", PathToken>>,
     <<Https, "[", PathToken>>,
     <<"github.com", PathToken>>}

SavePathInputs == {Default, <<"x">>}

FilenameInputs == {NameA}

InstallInputs ==
    [url : UrlInputs, filename : FilenameInputs, type : TypeInputs,
     save_path : SavePathInputs]

NoData == [url |-> <<>>, filename |-> <<>>, type |-> "", save_path |-> <<>>]

NoReq == [op |-> "none", folder |-> "", model |-> <<>>, data |-> NoData, net |-> "ok"]

NoResp == [code |-> 0, message |-> "", result |-> <<>>]

\* ------------------------------------------------------- metrics registry

\* latest reading of the wall clock, in seconds
MaxClock == 2

\* number of threads that call MetricsRegistry()
NThreads == 2

Threads == 1..NThreads

\* the gauges _initialize adds, in its order
GaugeNames(torch) ==
    <<"comfyui_uptime_seconds", "comfyui_memory_usage_bytes",
      "comfyui_memory_free_bytes", "comfyui_memory_total_bytes",
      "comfyui_memory_usage_percent", "comfyui_cpu_usage_percent",
      "comfyui_disk_usage_bytes", "comfyui_disk_free_bytes",
      "comfyui_disk_total_bytes", "comfyui_disk_usage_percent">>
    \o (IF torch THEN <<"comfyui_pytorch_info">> ELSE <<>>)
    \o <<"comfyui_gpu_utilization_percent", "comfyui_gpu_temperature_celsius",
         "comfyui_gpu_vram_used_bytes", "comfyui_gpu_vram_total_bytes",
         "comfyui_gpu_vram_used_percent">>

\* the labels argument add_gauge gets for a gauge ("" for none)
GaugeLabels(name) == IF name = "comfyui_pytorch_info" THEN "version=2" ELSE ""

\* a telemetry reading (memory, cpu, disk, gpu figures)
Reading == 1

\* the object super().__new__(cls) returns: no attribute is set yet.  inits
\* counts the runs of _initialize on it, recorded keeps the value the last
\* set_gauge wrote to each gauge
NewObject ==
    [hasGauges |-> FALSE, gauges |-> <<>>, start_time |-> 0, inits |-> 0,
     recorded |-> [n \in {} |-> 0]]

\* name in self.gauges (a dict, kept in insertion order)
HasGauge(gauges, name) == \E i \in DOMAIN gauges : gauges[i].name = name

GaugeValue(gauges, name) ==
    LET i == CHOOSE j \in DOMAIN gauges : gauges[j].name = name IN gauges[i].value

\* add_gauge: a gauge of value 0, unless the name is there already
add_gauge(o, name, labels) ==
    IF HasGauge(o.gauges, name) THEN o
    ELSE [o EXCEPT !.gauges = Append(@, [name |-> name, value |-> 0, labels |-> labels,
                                         labeled_values |-> <<>>])]

\* labeled_values[label_key] = value
PutLabeled(lv, key, value) ==
    IF \E i \in DOMAIN lv : lv[i][1] = key
    THEN [i \in DOMAIN lv |-> IF lv[i][1] = key THEN <<key, value>> ELSE lv[i]]
    ELSE Append(lv, <<key, value>>)

\* set_gauge: nothing for a name that is not in self.gauges
set_gauge(o, name, value, labels) ==
    IF ~HasGauge(o.gauges, name) THEN o
    ELSE [o EXCEPT
            !.gauges = [i \in DOMAIN @ |->
                          IF @[i].name # name THEN @[i]
                          ELSE [@[i] EXCEPT
                                  !.value = value,
                                  !.labeled_values =
                                      IF labels = "" THEN @
                                      ELSE PutLabeled(@, labels, value)]],
            !.recorded = (name :> value) @@ @]

\* set_gauge for each name of a list, one reading each
RECURSIVE SetGauges(_, _, _, _)
SetGauges(o, names, value, labels) ==
    IF Len(names) = 0 THEN o
    ELSE SetGauges(set_gauge(o, Head(names), value, labels), Tail(names), value, labels)

\* _initialize up to CGPUInfo(): the dictionaries are emptied, start_time is read
InitializeHead(o, now) ==
    [o EXCEPT !.hasGauges = TRUE, !.gauges = <<>>, !.start_time = now, !.inits = @ + 1]

RECURSIVE AddGauges(_, _)
AddGauges(o, names) ==
    IF Len(names) = 0 THEN o
    ELSE AddGauges(add_gauge(o, Head(names), GaugeLabels(Head(names))), Tail(names))

_initialize(o, now, torch) == AddGauges(InitializeHead(o, now), GaugeNames(torch))

\* what the host's probes answer during one scrape: whether psutil's memory
\* calls, its cpu call and its disk calls return (each may raise), and whether
\* gpu_info reports a device other than the cpu (it may also raise)
Telemetry == [memory : BOOLEAN, cpu : BOOLEAN, disk : BOOLEAN, gpu : BOOLEAN]

\* update_system_metrics: the registry object it leaves, and whether it raised
update_system_metrics(o, now, torch, t) ==
    LET up == set_gauge(o, "comfyui_uptime_seconds", now - o.start_time, "")
        pt == IF torch THEN set_gauge(up, "comfyui_pytorch_info", 1, "version=2") ELSE up
        mem == SetGauges(pt, <<"comfyui_memory_usage_bytes", "comfyui_memory_free_bytes",
                               "comfyui_memory_total_bytes",
                               "comfyui_memory_usage_percent">>, Reading, "")
        cpu == IF t.cpu THEN set_gauge(mem, "comfyui_cpu_usage_percent", Reading, "")
               ELSE mem
        disk == IF t.disk
                THEN SetGauges(cpu, <<"comfyui_disk_usage_bytes", "comfyui_disk_free_bytes",
                                      "comfyui_disk_total_bytes",
                                      "comfyui_disk_usage_percent">>, Reading, "")
                ELSE cpu
        gpu == IF t.gpu
               THEN SetGauges(disk, <<"comfyui_gpu_utilization_percent",
                                      "comfyui_gpu_temperature_celsius",
                                      "comfyui_gpu_vram_used_bytes",
                                      "comfyui_gpu_vram_total_bytes",
                                      "comfyui_gpu_vram_used_percent">>,
                              Reading, "gpu_index=0")
               ELSE disk
    IN  IF ~t.memory THEN [raised |-> TRUE, obj |-> pt]
        ELSE [raised |-> FALSE, obj |-> gpu]

\* one line of the exposition text
Line(kind, name, labels, value) ==
    [line |-> kind, name |-> name, labels |-> labels, value |-> value]

\* format_prometheus: HELP, TYPE and the value of each gauge, then one line
\* per labeled value (self.counters is empty)
RECURSIVE format_prometheus(_)
format_prometheus(gauges) ==
    IF Len(gauges) = 0 THEN <<>>
    ELSE LET g == Head(gauges) IN
         <<Line("HELP", g.name, "", 0), Line("TYPE", g.name, "", 0),
           Line("sample", g.name, "", g.value)>>
         \o [i \in DOMAIN g.labeled_values |->
               Line("sample", g.name, g.labeled_values[i][1], g.labeled_values[i][2])]
         \o format_prometheus(Tail(gauges))

\* the text get_metrics returns when anything raised
ErrorText == <<Line("# Error generating metrics", "", "", 0)>>

\* get_metrics: the registry object it leaves and the text it returns
get_metrics(o, now, torch, t) ==
    LET u == update_system_metrics(o, now, torch, t) IN
    [obj |-> u.obj,
     text |-> IF u.raised THEN ErrorText ELSE format_prometheus(u.obj.gauges)]

\* a thread that has not called MetricsRegistry()
NoThread == [pc |-> "off", self |-> 0, k |-> 0]

\* the state the import of the metrics module leaves at clock reading now:
\* registry = MetricsRegistry() has run, no lock is held, nothing was scraped
MetricsImported(now, torch) ==
    /\ clock = now
    /\ TORCH_AVAILABLE = torch
    /\ lock = 0
    /\ instance = 1
    /\ heap = <<_initialize(NewObject, now, torch)>>
    /\ threads = [t \in Threads |-> NoThread]
    /\ scrapes = <<>>

\* ----------------------------------------------------------------- actions

Init ==
    /\ sep \in {"/", "\\"}
    /\ fs \in InitFs(sep)
    /\ pc = "idle"
    /\ lastReq = NoReq
    /\ lastResp = NoResp
    /\ effects = {}
    /\ MetricsImported(0, TRUE)

Respond(req, o) ==
    /\ pc' = "responded"
    /\ lastReq' = req
    /\ lastResp' = o.resp
    /\ fs' = o.fs
    /\ effects' = o.effects
    /\ UNCHANGED <<sep, metricsVars>>

\* DELETE /api-tools/v1/models/{folder}/{model}
RemoveModel ==
    /\ pc = "idle"
    /\ \E folder \in FolderInputs, model \in RawPaths, osError \in BOOLEAN :
         \E o \in remove_model(fs, sep, folder, model, osError) :
            Respond([op |-> "remove", folder |-> folder, model |-> model,
                     data |-> NoData, net |-> "ok"], o)

\* GET /api-tools/v1/models/{folder}/{model}/download
DownloadModel ==
    /\ pc = "idle"
    /\ \E folder \in FolderInputs, model \in RawPaths :
         \E o \in download_model(fs, sep, folder, model) :
            Respond([op |-> "download", folder |-> folder, model |-> model,
                     data |-> NoData, net |-> "ok"], o)

\* POST /api-tools/v1/models/install
InstallModel ==
    /\ pc = "idle"
    /\ \E data \in InstallInputs, net \in NetOutcomes :
         \E o \in install_model(fs, sep, data, net) :
            Respond([op |-> "install", folder |-> "", model |-> <<>>,
                     data |-> data, net |-> net], o)

\* the response is sent and the server waits for the next request
NextRequest ==
    /\ pc = "responded"
    /\ pc' = "idle"
    /\ lastReq' = NoReq
    /\ lastResp' = NoResp
    /\ effects' = {}
    /\ UNCHANGED <<sep, fs, metricsVars>>

Next == RemoveModel \/ DownloadModel \/ InstallModel \/ NextRequest

\* the whole server
Spec == Init /\ [][Next]_vars

\* the delete-model and download-model handlers alone
NextModels == RemoveModel \/ DownloadModel \/ NextRequest

SpecModels == Init /\ [][NextModels]_vars

\* the install handler alone
NextInstall == InstallModel \/ NextRequest

SpecInstall == Init /\ [][NextInstall]_vars

\* ---- the install handler with client-chosen placement

\* save_path values a client may send: the ones above, a parent directory, an
\* absolute path
PlacementSavePaths == SavePathInputs \cup {<<".", ".">>, <<"/", "t">>}

\* filename values a client may send: the ones above and one that climbs
PlacementFilenames == FilenameInputs \cup {<<".", ".", "/", ".", ".", "/", "a">>}

PlacementInputs ==
    [url : UrlInputs, filename : PlacementFilenames, type : TypeInputs,
     save_path : PlacementSavePaths]

\* the server starts with no model file on disk
InitPlacement ==
    /\ sep \in {"/", "\\"}
    /\ fs = [q \in {OutsideFile} |-> RegularFile("secret")]
    /\ pc = "idle"
    /\ lastReq = NoReq
    /\ lastResp = NoResp
    /\ effects = {}
    /\ MetricsImported(0, TRUE)

\* POST /api-tools/v1/models/install, any save_path and filename
InstallAnywhere ==
    /\ pc = "idle"
    /\ \E data \in PlacementInputs, net \in NetOutcomes :
         \E o \in install_model(fs, sep, data, net) :
            Respond([op |-> "install", folder |-> "", model |-> <<>>,
                     data |-> data, net |-> net], o)

NextPlacement == InstallAnywhere \/ NextRequest

SpecPlacement == InitPlacement /\ [][NextPlacement]_vars

\* ---- the metrics endpoint

\* the module-level name registry, bound to the singleton at import
registry == instance

\* the API handlers at rest, for the specifications of the metrics registry
ApiIdle ==
    /\ sep = "/"
    /\ fs = [q \in {OutsideFile} |-> RegularFile("secret")]
    /\ pc = "idle"
    /\ lastReq = NoReq
    /\ lastResp = NoResp
    /\ effects = {}

InitMetrics ==
    /\ ApiIdle
    /\ \E now \in 0..MaxClock, torch \in BOOLEAN : MetricsImported(now, torch)

\* time passes
Tick ==
    /\ clock < MaxClock
    /\ clock' = clock + 1
    /\ UNCHANGED <<apiVars, TORCH_AVAILABLE, lock, instance, heap, threads, scrapes>>

\* the wall clock time.time() reads is set back (an NTP step, an operator)
ClockSetBack ==
    /\ \E c \in 0..(clock - 1) : clock' = c
    /\ UNCHANGED <<apiVars, TORCH_AVAILABLE, lock, instance, heap, threads, scrapes>>

\* GET /api-tools/v1/metrics: get_metrics(); scrapes keeps the last two texts
GetMetrics ==
    \E t \in Telemetry :
       LET m == get_metrics(heap[registry], clock, TORCH_AVAILABLE, t)
           all == Append(scrapes, m.text)
       IN  /\ heap' = [heap EXCEPT ![registry] = m.obj]
           /\ scrapes' = IF Len(all) > 2 THEN Tail(all) ELSE all
           /\ UNCHANGED <<apiVars, clock, TORCH_AVAILABLE, lock, instance, threads>>

NextMetrics == GetMetrics \/ Tick \/ ClockSetBack

SpecMetrics == InitMetrics /\ [][NextMetrics]_vars

\* the metrics endpoint on a host whose clock is never set back
NextMetricsSteady == GetMetrics \/ Tick

SpecMetricsSteady == InitMetrics /\ [][NextMetricsSteady]_vars

\* ---- MetricsRegistry() called by several threads

\* a call of __new__ may take cls._lock
LockAlwaysFree(t) == TRUE

\* with cls._lock: Lock.acquire blocks while another thread holds the lock
CanAcquire(t) == lock = 0

\* no instance yet, every thread is about to call MetricsRegistry()
InitSingleton ==
    /\ ApiIdle
    /\ clock = 0
    /\ TORCH_AVAILABLE \in BOOLEAN
    /\ lock = 0
    /\ instance = 0
    /\ heap = <<>>
    /\ threads = [t \in Threads |-> [pc |-> "call", self |-> 0, k |-> 0]]
    /\ scrapes = <<>>

\* thread t moves to pc p, with the local values self and k
Goto(t, p, self, k) == threads' = [threads EXCEPT ![t] = [pc |-> p, self |-> self, k |-> k]]

\* line 25: with cls._lock
Acquire(t) ==
    /\ threads[t].pc = "call"
    /\ CanAcquire(t)
    /\ lock' = t
    /\ Goto(t, "check", 0, 0)
    /\ UNCHANGED <<apiVars, clock, TORCH_AVAILABLE, instance, heap, scrapes>>

\* line 26: if cls._instance is None
CheckInstance(t) ==
    /\ threads[t].pc = "check"
    /\ Goto(t, IF instance = 0 THEN "alloc" ELSE "ret", 0, 0)
    /\ UNCHANGED <<apiVars, clock, TORCH_AVAILABLE, lock, instance, heap, scrapes>>

\* line 27: cls._instance = super().__new__(cls)
Allocate(t) ==
    /\ threads[t].pc = "alloc"
    /\ heap' = Append(heap, NewObject)
    /\ instance' = Len(heap) + 1
    /\ Goto(t, "init", 0, 0)
    /\ UNCHANGED <<apiVars, clock, TORCH_AVAILABLE, lock, scrapes>>

\* line 28 and lines 33-39: cls._instance is read again and its _initialize
\* starts
StartInitialize(t) ==
    /\ threads[t].pc = "init"
    /\ heap' = [heap EXCEPT ![instance] = InitializeHead(@, clock)]
    /\ Goto(t, "gauges", instance, 1)
    /\ UNCHANGED <<apiVars, clock, TORCH_AVAILABLE, lock, instance, scrapes>>

\* lines 42-62: the next add_gauge of _initialize; after the last one
\* _initialize returns
AddNextGauge(t) ==
    LET names == GaugeNames(TORCH_AVAILABLE)
        k == threads[t].k
        self == threads[t].self
    IN  /\ threads[t].pc = "gauges"
        /\ heap' = [heap EXCEPT ![self] = add_gauge(@, names[k], GaugeLabels(names[k]))]
        /\ Goto(t, IF k = Len(names) THEN "ret" ELSE "gauges", self, k + 1)
        /\ UNCHANGED <<apiVars, clock, TORCH_AVAILABLE, lock, instance, scrapes>>

\* line 29: return cls._instance
ReturnInstance(t) ==
    /\ threads[t].pc = "ret"
    /\ Goto(t, "release", instance, 0)
    /\ UNCHANGED <<apiVars, clock, TORCH_AVAILABLE, lock, instance, heap, scrapes>>

\* the with block is left: the lock is released
Release(t) ==
    /\ threads[t].pc = "release"
    /\ lock' = 0
    /\ Goto(t, "have", threads[t].self, 0)
    /\ UNCHANGED <<apiVars, clock, TORCH_AVAILABLE, instance, heap, scrapes>>

\* the caller records a value in the instance it got: set_gauge of the uptime,
\* as update_system_metrics does; an instance without a gauges dictionary
\* raises AttributeError
RecordGauge(t) ==
    LET self == threads[t].self IN
    /\ threads[t].pc = "have"
    /\ IF heap[self].hasGauges
       THEN /\ heap' = [heap EXCEPT ![self] = set_gauge(@, "comfyui_uptime_seconds",
                                                       clock - @.start_time, "")]
            /\ Goto(t, "done", self, 0)
       ELSE /\ heap' = heap
            /\ Goto(t, "crashed", self, 0)
    /\ UNCHANGED <<apiVars, clock, TORCH_AVAILABLE, lock, instance, scrapes>>

NextSingleton ==
    \/ \E t \in Threads :
          \/ Acquire(t) \/ CheckInstance(t) \/ Allocate(t) \/ StartInitialize(t)
          \/ AddNextGauge(t) \/ ReturnInstance(t) \/ Release(t) \/ RecordGauge(t)
    \/ Tick

SpecSingleton == InitSingleton /\ [][NextSingleton]_vars

\* =================================================================== claims

\* ---- vocabulary of the claims, stated on the raw string position by position

IsSepChar(c) == c \in {"/", "\\"}

\* positions i..j of p hold exactly one segment
SegmentAt(p, i, j) ==
    /\ 1 <= i /\ i <= j /\ j <= Len(p)
    /\ \A k \in i..j : ~IsSepChar(p[k])
    /\ i = 1 \/ IsSepChar(p[i - 1])
    /\ j = Len(p) \/ IsSepChar(p[j + 1])

HasDotDotSegment(p) ==
    \E i \in 1..Len(p) : SegmentAt(p, i, i + 1) /\ p[i] = "." /\ p[i + 1] = "."

HasDotSegment(p) == \E i \in 1..Len(p) : SegmentAt(p, i, i) /\ p[i] = "."

HasEmptySegment(p) ==
    \/ Len(p) = 0
    \/ IsSepChar(p[1])
    \/ IsSepChar(p[Len(p)])
    \/ \E i \in 1..(Len(p) - 1) : IsSepChar(p[i]) /\ IsSepChar(p[i + 1])

HasColon(p) == \E i \in 1..Len(p) : p[i] = ":"

\* a relative path that names a place inside a tree
ValidRelPath(p) ==
    ~(HasEmptySegment(p) \/ HasColon(p) \/ HasDotSegment(p) \/ HasDotDotSegment(p))

ModelRequest == pc = "responded" /\ lastReq.op \in {"remove", "download"}

InvalidPathRejection == error_resp(400, "invalid model path")

Registered(folder) == folder \in DOMAIN FolderNamesAndPaths

\* no registered base directory lies above q
OutsideAllBases(q) ==
    \A n \in DOMAIN FolderNamesAndPaths :
        \A i \in 1..Len(FolderNamesAndPaths[n]) : ~IsPrefix(FolderNamesAndPaths[n][i], q)

\* model is the relative path of a symlink below the folder's base directory
\* whose target is a regular file outside every registered base directory
NamesOutsideLink(f, s, folder, model) ==
    /\ Registered(folder)
    /\ \E q \in DOMAIN f :
          /\ IsProperPrefix(FolderNamesAndPaths[folder][1], q)
          /\ f[q].kind = "link"
          /\ OutsideAllBases(f[q].target)
          /\ IsFile(f, f[q].target)
          /\ model = RelPath(q, FolderNamesAndPaths[folder][1], "/")

\* C1: a delete or download request that names a symlink under the base
\* directory whose target is a file outside every registered base directory is
\* answered 403, and nothing is removed or read for it.
C1_OutsideSymlinkRejected ==
    [][(pc = "idle" /\ pc' = "responded" /\ lastReq'.op \in {"remove", "download"}
          /\ NamesOutsideLink(fs, sep, lastReq'.folder, lastReq'.model))
       => (/\ lastResp'.code = 403
           /\ fs' = fs
           /\ \A e \in effects' : e.op \notin {"remove", "read"})]_vars

\* C2: a raw path with a ".." segment, in either separator style, gets the
\* invalid-path rejection from both handlers, and the handler touches no file:
\* no walk, no file-type probe, no remove, no read.
C2_DotDotRejectedBeforeFilesystem ==
    (ModelRequest /\ HasDotDotSegment(lastReq.model))
    => (lastResp = InvalidPathRejection /\ effects = {})

C2_Witness ==
    /\ ModelRequest
    /\ lastReq.op = "remove"
    /\ lastReq.folder = "loras"
    /\ lastReq.model = <<"a", "\\", ".", ".">>
    /\ lastResp = InvalidPathRejection
    /\ PathA_B \in DOMAIN fs

\* C3: a raw path whose first character is "/" or "\\" gets the invalid-path
\* rejection from both handlers, whatever the folder and the rest of the path.
C3_LeadingSeparatorRejected ==
    (ModelRequest /\ Len(lastReq.model) > 0 /\ IsSepChar(lastReq.model[1]))
    => lastResp = InvalidPathRejection

C3_Witness ==
    /\ ModelRequest
    /\ lastReq.op = "download"
    /\ lastReq.folder = "loras"
    /\ lastReq.model = <<"\\", "a">>
    /\ IsFile(fs, PathA)
    /\ lastResp = InvalidPathRejection

\* C4, as claimed: a folder name that is no key of the registry gets the
\* unknown-folder rejection whatever the path is.
C4_UnknownFolderWinsFirst ==
    (ModelRequest /\ ~Registered(lastReq.folder))
    => lastResp.message = "Folder not found"

\* C4, amended: the path is validated first.  For a folder name that is no key
\* of the registry, a path that passes validation gets the unknown-folder
\* rejection and no file is touched; a path that fails validation gets the
\* invalid-path rejection (the missing-path one for an empty path on download).
C4_UnknownFolderAfterPathCheck ==
    (ModelRequest /\ ~Registered(lastReq.folder))
    => /\ effects = {}
       /\ IF ValidRelPath(lastReq.model)
          THEN lastResp.message = "Folder not found"
          ELSE IF lastReq.model = <<>> /\ lastReq.op = "download"
          THEN lastResp = error_resp(400, "model is required")
          ELSE lastResp = InvalidPathRejection

C4_Witness ==
    /\ ModelRequest
    /\ lastReq.folder = "nope"
    /\ lastReq.model = <<"a", "/", "b">>
    /\ lastResp.message = "Folder not found"
    /\ effects = {}

\* the rejection kind a response reports
RejectionKind ==
    ("Folder not found" :> "UnknownFolder") @@ ("folder is required" :> "MissingPath") @@
    ("model is required" :> "MissingPath") @@ ("invalid model path" :> "InvalidPath") @@
    ("Model not found" :> "NotFound") @@ ("Not Found" :> "NotFound") @@
    ("Access denied" :> "OutOfBounds")

\* a delete or download request was turned down (500 reports a failed os call,
\* not a rejection of the request)
Rejected == ModelRequest /\ lastResp.code \notin {200, 500}

\* what made the handler turn the request down agrees with the kind it reports
KindAgreesWithCause(kind) ==
    CASE kind = "MissingPath" -> lastReq.model = <<>>
      [] kind = "InvalidPath" -> ~ValidRelPath(lastReq.model)
      [] kind = "UnknownFolder" -> ~Registered(lastReq.folder) /\ ValidRelPath(lastReq.model)
      [] kind = "NotFound" ->
            /\ Registered(lastReq.folder)
            /\ ValidRelPath(lastReq.model)
            /\ Fx("walk", FolderNamesAndPaths[lastReq.folder][1]) \in effects
      [] kind = "OutOfBounds" -> Registered(lastReq.folder)

StatusAsClaimed ==
    [UnknownFolder |-> 400, MissingPath |-> 400, InvalidPath |-> 400,
     NotFound |-> 404, OutOfBounds |-> 403]

StatusAsCoded ==
    [UnknownFolder |-> 404, MissingPath |-> 400, InvalidPath |-> 400,
     NotFound |-> 404, OutOfBounds |-> 403]

\* C5, as claimed: every rejection carries the status of its kind, unknown
\* folder, missing path and invalid path 400, not found 404, out of bounds 403.
C5_StatusPerKindAsClaimed ==
    Rejected
    => /\ lastResp.message \in DOMAIN RejectionKind
       /\ lastResp.code = StatusAsClaimed[RejectionKind[lastResp.message]]

\* C5, amended: every rejection carries the status of its kind, and the kind
\* is the one the request earned: unknown folder 404, missing path and invalid
\* path 400, no file or a non-regular file 404, out of bounds 403.
C5_StatusPerKind ==
    Rejected
    => /\ lastResp.message \in DOMAIN RejectionKind
       /\ lastResp.code = StatusAsCoded[RejectionKind[lastResp.message]]
       /\ KindAgreesWithCause(RejectionKind[lastResp.message])

C5_Witness ==
    /\ Rejected
    /\ lastReq.folder = "nope"
    /\ lastReq.model = <<"a">>
    /\ lastResp = error_resp(404, "Folder not found")

\* C6: on every filesystem, for every folder and every valid relative path p,
\* each handler gives the same outcomes (response, filesystem left behind,
\* operations performed) for p and for p with every "/" written "\\".
C6_SeparatorStyleIndependence ==
    pc = "idle"
    => \A folder \in FolderInputs, p \in RawPaths :
          ValidRelPath(p)
          => /\ \A e \in BOOLEAN :
                   remove_model(fs, sep, folder, p, e)
                       = remove_model(fs, sep, folder, Replace(p, "/", "\\"), e)
             /\ download_model(fs, sep, folder, p)
                    = download_model(fs, sep, folder, Replace(p, "/", "\\"))

C6_Witness ==
    /\ ModelRequest
    /\ lastReq.op = "remove"
    /\ lastReq.folder = "loras"
    /\ lastReq.model = <<"a", "\\", "b">>
    /\ lastResp = success_resp(PathA_B)
    /\ PathA_B \notin DOMAIN fs

\* C7: once a delete of (folder, path) has reported success, a delete or a
\* download of the same (folder, path) reports not-found (404).
C7_DeleteThenNotFound ==
    (ModelRequest /\ lastReq.op = "remove" /\ lastResp.code = 200)
    => /\ \A o \in remove_model(fs, sep, lastReq.folder, lastReq.model, FALSE) :
             o.resp.code = 404
       /\ \A o \in download_model(fs, sep, lastReq.folder, lastReq.model) :
             o.resp.code = 404

\* ---- install

InstallRequest == pc = "responded" /\ lastReq.op = "install"

\* the destination the installer computes for a request body
Destination(data, s) ==
    NormPath(<<>>, OsPathJoin(get_install_dir(data, s), data.filename, s))

\* the hosts the claim lists
TrustedHosts ==
    {<<"civitai.com">>, <<"github.com">>, <<"raw.githubusercontent.com">>,
     <<"huggingface.co">>}

\* the host of a URL: its network location without user info and port; a URL
\* that cannot be parsed has none
UrlHost(url) ==
    IF UrlparseRaises(url) THEN <<"?">>
    ELSE SelectSeq(Netloc(url), LAMBDA t : t \notin {"user@", ":443"})

\* the host, one leading "www." removed, is exactly a trusted host
HostTrusted(url) ==
    LET h == UrlHost(url) IN
    \/ h \in TrustedHosts
    \/ Len(h) > 1 /\ h[1] = "www." /\ Tail(h) \in TrustedHosts

\* C8: whenever the destination of an install request already exists, nothing
\* is fetched, nothing is written and the filesystem, the existing file's
\* content included, is left as it was; and the request is answered 409 when
\* its URL names a trusted host (with no user info and no port), that is when
\* it passes the URL checks that come before the installer.
C8_ExistingDestinationConflict ==
    [][(pc = "idle" /\ pc' = "responded" /\ lastReq'.op = "install"
          /\ Exists(fs, Destination(lastReq'.data, sep)))
       => (/\ fs' = fs
           /\ \A e \in effects' : e.op \notin {"fetch", "write"}
           /\ (/\ HostTrusted(lastReq'.data.url)
               /\ UrlHost(lastReq'.data.url) = Netloc(lastReq'.data.url))
                 => lastResp'.code = 409)]_vars

C8_Witness ==
    /\ InstallRequest
    /\ lastReq.data.type = "LORA"
    /\ lastReq.data.save_path = Default
    /\ lastReq.net = "ok"
    /\ lastResp.code = 409
    /\ Destination(lastReq.data, sep) = PathA
    /\ PathA \in DOMAIN fs
    /\ fs[PathA] = RegularFile("d0")

\* C9, as claimed: a URL whose host is not a trusted host is answered 403, a
\* missing URL 400, and in both cases the installer is not reached: nothing is
\* probed, fetched or written.
C9_UntrustedHost403 ==
    InstallRequest
    => /\ lastReq.data.url = <<>> => (lastResp.code = 400 /\ effects = {})
       /\ (lastReq.data.url # <<>> /\ ~HostTrusted(lastReq.data.url))
             => (lastResp.code = 403 /\ effects = {})

\* C9, amended: a URL whose host is not a trusted host is turned down before
\* the installer is reached, with 403, or with 400 when the URL cannot be
\* parsed; a missing URL is turned down with 400 in the same way.  Nothing is
\* probed, fetched or written for such a request.
C9_UntrustedHostRejected ==
    InstallRequest
    => /\ lastReq.data.url = <<>> => (lastResp.code = 400 /\ effects = {})
       /\ (lastReq.data.url # <<>> /\ ~HostTrusted(lastReq.data.url))
             => /\ effects = {}
                /\ lastResp.code = IF UrlparseRaises(lastReq.data.url) THEN 400 ELSE 403

C9_Witness ==
    /\ InstallRequest
    /\ lastReq.data.url = <<Https, "www.", "www.", "github.com", PathToken>>
    /\ lastReq.net = "ok"
    /\ lastResp.code = 403
    /\ effects = {}
    /\ ~Exists(fs, Destination(lastReq.data, sep))

\* C10: an install whose fetch or write failed is answered with code 500, and
\* success is reported only when the fetched file is at the destination.
C10_FailedInstallReports500 ==
    InstallRequest
    => /\ (lastReq.net # "ok" /\ Fx("fetch", <<>>) \in effects) => lastResp.code = 500
       /\ lastResp.code = 200
             => /\ IsFile(fs, Destination(lastReq.data, sep))
                /\ fs[Destination(lastReq.data, sep)].data = "fetched"

\* ---- frame of the model handlers

\* q is the regular file below the folder's primary base directory whose
\* relative path is the requested path, in either separator style
IsRequestedFile(f, s, folder, model, q) ==
    /\ Registered(folder)
    /\ q \in DOMAIN f
    /\ f[q].kind = "file"
    /\ IsProperPrefix(FolderNamesAndPaths[folder][1], q)
    /\ \/ RelPath(q, FolderNamesAndPaths[folder][1], s) = model
       \/ RelPath(q, FolderNamesAndPaths[folder][1], "/") = Replace(model, "\\", "/")

\* C12: a delete-model request changes the filesystem only when it answers
\* success, and then by removing exactly one entry, the regular file under the
\* folder's primary base directory whose relative path is the requested path;
\* on every other answer, and on every download-model request, the filesystem
\* is left as it was.
C12_DeleteRemovesOnlyTheRequestedFile ==
    [][(pc = "idle" /\ pc' = "responded" /\ lastReq'.op \in {"remove", "download"})
       => IF lastReq'.op = "remove" /\ lastResp'.code = 200
          THEN \E q \in DOMAIN fs :
                  /\ fs' = Remove(fs, q)
                  /\ IsRequestedFile(fs, sep, lastReq'.folder, lastReq'.model, q)
          ELSE fs' = fs]_vars

\* the parts of C12 that do not depend on which entry is matched: nothing is
\* removed without a success answer, and success removes exactly one entry
C12_FrameOnly ==
    [][(pc = "idle" /\ pc' = "responded" /\ lastReq'.op \in {"remove", "download"})
       => IF lastReq'.op = "remove" /\ lastResp'.code = 200
          THEN \E q \in DOMAIN fs : fs' = Remove(fs, q)
          ELSE fs' = fs]_vars

\* ---- install placement

\* q lies inside the models base directory or a registered folder's base
InsideModelDirs(q) ==
    \/ IsProperPrefix(ModelsDir, q)
    \/ \E n \in DOMAIN FolderNamesAndPaths :
          \E i \in 1..Len(FolderNamesAndPaths[n]) :
             IsProperPrefix(FolderNamesAndPaths[n][i], q)

\* C14: whatever save_path, type and filename an install request carries, a
\* file the installer writes lies inside the models base directory or inside
\* a registered folder's base directory.
C14_InstallWritesInsideModelDirs ==
    InstallRequest
    => \A e \in effects : e.op = "write" => InsideModelDirs(e.path)

\* ---- metrics

\* the text exposes a value of the uptime gauge
ExposesUptime(text) ==
    \E i \in DOMAIN text :
       /\ text[i].line = "sample"
       /\ text[i].name = "comfyui_uptime_seconds"
       /\ text[i].labels = ""

UptimeOf(text) ==
    LET i == CHOOSE j \in DOMAIN text :
                /\ text[j].line = "sample"
                /\ text[j].name = "comfyui_uptime_seconds"
                /\ text[j].labels = ""
    IN  text[i].value

\* C11: of two metrics scrapes made in succession on the registry, the second
\* exposes an uptime value greater than or equal to the one the first exposed.
C11_UptimeNeverDecreases ==
    (Len(scrapes) = 2 /\ ExposesUptime(scrapes[1]) /\ ExposesUptime(scrapes[2]))
        => UptimeOf(scrapes[2]) >= UptimeOf(scrapes[1])

\* ---- singleton construction

\* the call MetricsRegistry() of thread t has evaluated its return value
HasInstance(t) == threads[t].pc \in {"release", "have", "done", "crashed"}

\* every gauge of _initialize is in the object's gauges dictionary
FullyInitialised(o) ==
    /\ o.hasGauges
    /\ \A i \in DOMAIN GaugeNames(TORCH_AVAILABLE) :
          HasGauge(o.gauges, GaugeNames(TORCH_AVAILABLE)[i])

\* how often _initialize has run, over all objects
RECURSIVE InitializeRuns(_)
InitializeRuns(h) == IF Len(h) = 0 THEN 0 ELSE Head(h).inits + InitializeRuns(Tail(h))

\* C13: however the threads' first calls of MetricsRegistry() interleave,
\* every call returns the same instance, _initialize runs exactly once, a
\* thread never holds an instance whose gauges dictionary is not fully
\* initialised, and a gauge value once recorded is not reset by a later
\* construction.
C13_SingletonUnderConcurrency ==
    /\ InitializeRuns(heap) <= 1
    /\ \A t \in Threads :
          HasInstance(t) =>
             /\ threads[t].pc # "crashed"
             /\ InitializeRuns(heap) = 1
             /\ threads[t].self = instance
             /\ FullyInitialised(heap[threads[t].self])
             /\ \A u \in Threads : HasInstance(u) => threads[u].self = threads[t].self
    /\ \A i \in DOMAIN heap :
          \A n \in DOMAIN heap[i].recorded :
             /\ HasGauge(heap[i].gauges, n)
             /\ GaugeValue(heap[i].gauges, n) = heap[i].recorded[n]

\* one thread has recorded a positive uptime in the instance, and another
\* thread's later call is returning that same instance
C13_Witness ==
    \E t, u \in Threads :
       /\ t # u
       /\ threads[t].pc = "done"
       /\ threads[u].pc = "release"
       /\ threads[u].self = threads[t].self
       /\ "comfyui_uptime_seconds" \in DOMAIN heap[instance].recorded
       /\ heap[instance].recorded["comfyui_uptime_seconds"] > 0

====
